---- MODULE Spec2Model ----
(***************************************************************************)
(* CompositeDataProvider (src/src/ontodia/data/composite/composite.ts):    *)
(* a DataProvider that fans every operation out to a registry of backends  *)
(* and merges their answers, either all at once (mergeMode 'fetchAll') or  *)
(* one backend after the other (mergeMode 'sequentialFetching').           *)
(*                                                                         *)
(* Data abstraction.  Ids are small integers.  Whatever a backend resolves *)
(* with (a Dictionary, a ClassModel[], a LinkType[], a LinkModel[], a      *)
(* LinkCount[]) is a set of records, each with the key the composite looks *)
(* at (the dictionary key, .id, or .sourceId of a link); it is modelled as *)
(* a function from those keys to the payload, and the payload delivered by *)
(* the i-th registered backend is the number i, so that payloads of        *)
(* different backends differ.  A promise resolved with undefined is the    *)
(* response Undefined.                                                     *)
(***************************************************************************)
EXTENDS Integers, Sequences, FiniteSets, TLC

\* ------------------------------------------------------------------ bounds
MaxBackends == 3
MaxId == 2

Ids == 1..MaxId
Backends == 1..MaxBackends
CallIds == {1, 2}

\* ------------------------------------------------------------- operations
WholeOps == {"classTree", "linkTypes"}
DictNarrowOps == {"propertyInfo", "elementInfo"}
ListNarrowOps == {"classInfo", "linkTypesInfo"}
NarrowOps == DictNarrowOps \cup ListNarrowOps \cup {"linksInfo"}
BinaryOps == {"linkTypesOf", "linkElements", "filter"}
Operations == WholeOps \cup NarrowOps \cup BinaryOps

MergeModes == {"fetchAll", "sequentialFetching"}

\* ------------------------------------------------------------------- data
Undefined == [defined |-> FALSE, body |-> <<>>]

\* what backend i resolves with when it answers exactly the keys K
Answer(i, K) == [defined |-> TRUE, body |-> [k \in K |-> i]]

Keys(response) == IF response.defined THEN DOMAIN response.body ELSE {}

\* id arrays a caller passes: the subsets of Ids, each listed in ascending order
RECURSIVE SortedSeq(_)
SortedSeq(S) ==
    IF S = {} THEN <<>>
    ELSE LET m == CHOOSE x \in S : \A y \in S : x <= y
         IN <<m>> \o SortedSeq(S \ {m})

Requests == {SortedSeq(S) : S \in SUBSET Ids}

\* what a caller passes to operation o: nothing to classTree and linkTypes, an
\* id array to the narrowable operations, params about one element (its
\* elementId, or the refElementId of a filter) to the binary ones
RequestsOf(o) ==
    CASE o \in {"classTree", "linkTypes"} -> {<<>>}
      [] o \in {"linkTypesOf", "linkElements", "filter"} -> {<<id>> : id \in Ids}
      [] OTHER -> Requests

Range(s) == {s[k] : k \in 1..Len(s)}

\* ------------------------------------------------------------ constructor
\* A name is the sequence of the pieces it is spelled with, so that the
\* string 'dataProvider_' + 1 and an explicit name spelled dataProvider_1 are
\* the same name.  An entry of the constructor's list is modelled by its name
\* property, which a bare DataProvider does not have.
NoName == <<>>
Bare == [name |-> NoName]
Named(nm) == [name |-> nm]

\* lines 32-34
isDefenition(dp) == dp.name # NoName

\* mutant: dpCounter counts every entry of the list
BarePosition(input, k) == k

\* constructor, lines 48-58: an entry with a name keeps it, a bare backend
\* gets 'dataProvider_' + dpCounter++; BareBefore is the value of dpCounter
\* the bare entry k is named with
RECURSIVE BareBefore(_, _)
BareBefore(input, k) ==
    IF k = 0 THEN 0
    ELSE BareBefore(input, k - 1) + (IF isDefenition(input[k]) THEN 0 ELSE 1)

SyntheticName(j) == <<"dataProvider_", j>>

Construct(input) ==
    [k \in 1..Len(input) |->
        IF isDefenition(input[k]) THEN input[k].name
        ELSE SyntheticName(BareBefore(input, k))]

\* mutant: without a mergeMode the composite fetches sequentially
ConstructModeSequential(modeParam) ==
    IF modeParam = "none" THEN "sequentialFetching" ELSE modeParam

\* constructor, lines 40 and 60-62; "none" is a call without params or with
\* params that have no mergeMode
ConstructMode(modeParam) ==
    IF modeParam = "none" THEN "fetchAll" ELSE modeParam

BareInputs == {[k \in 1..n |-> Bare] : n \in 0..MaxBackends}

\* --------------------------------------------------------------- backends
\* the promise a backend returned for one invocation, as the caller sees it
NotInvoked == [state |-> "none", args |-> <<>>, response |-> Undefined]
PendingCall(args) == [state |-> "pending", args |-> args, response |-> Undefined]
ThrewCall(args) == [state |-> "threw", args |-> args, response |-> Undefined]

\* everything backend i may resolve with: undefined, or records for any keys
\* (a backend is free to return keys nobody asked for)
Responses(i) == {Undefined} \cup {Answer(i, K) : K \in SUBSET Ids}

\* ------------------------------------------------- mergeUtils (not in src)
\* CompositeResponse<T>: {dataSourceName, response}
Tagged(name, response) == [dataSourceName |-> name, response |-> response]

\* position of the earliest entry of list whose payload has key k
FirstWith(list, k) ==
    CHOOSE j \in 1..Len(list) :
        /\ k \in Keys(list[j].response)
        /\ \A h \in 1..(j - 1) : k \notin Keys(list[h].response)

\* merge functions of mergeUtils: an absent payload contributes nothing, the
\* entry of the earliest tagged response that has a key is kept
mergeFunction(list) ==
    LET all == UNION {Keys(list[j].response) : j \in 1..Len(list)}
    IN [k \in all |-> list[FirstWith(list, k)].response.body[k]]

\* --------------------------------------------- callbacks of the operations
\* propertyInfo, line 75
propertyInfoFilter(propertyIds, previousResult) ==
    SelectSeq(propertyIds,
        LAMBDA id : ~previousResult.defined \/ id \notin DOMAIN previousResult.body)

\* classInfo, line 87
classInfoFilter(classIds, previousResult) ==
    SelectSeq(classIds,
        LAMBDA id : ~previousResult.defined
                    \/ ~(\E cm \in DOMAIN previousResult.body : cm = id))

\* linkTypesInfo, lines 99-100
linkTypesInfoFilter(linkTypeIds, previousResult) ==
    SelectSeq(linkTypeIds,
        LAMBDA id : ~previousResult.defined
                    \/ ~(\E lt \in DOMAIN previousResult.body : lt = id))

\* elementInfo, line 116
elementInfoFilter(elementIds, previousResult) ==
    SelectSeq(elementIds,
        LAMBDA id : ~previousResult.defined \/ id \notin DOMAIN previousResult.body)

\* mutant: linksInfo passes the element ids on as they are
linksInfoFilterKeepsAll(elementIds, previousResult) == elementIds

\* linksInfo, lines 131-138: an id stays unless some found link has it as source
linksInfoFilter(elementIds, previousResult) ==
    SelectSeq(elementIds,
        LAMBDA id : ~(previousResult.defined
                      /\ \E sourceId \in DOMAIN previousResult.body : sourceId = id))

\* mutant: a result that was found does not end the queue
NeverFound(previousResult) == TRUE

\* linkTypesOf line 150, linkElements line 170, filter line 184
StillEmpty(previousResult) ==
    ~previousResult.defined
    \/ (previousResult.defined /\ Cardinality(DOMAIN previousResult.body) = 0)

\* mutant: each callBack narrows the caller's id array by the latest result
\* only, instead of narrowing the array it narrowed before
callBackLatestOnly(o, previousResult, idsNow, params) ==
    LET narrowed ==
            IF o \in NarrowOps
            THEN SelectSeq(params, LAMBDA id : id \notin Keys(previousResult))
            ELSE idsNow
    IN IF o \in BinaryOps
       THEN [ids |-> idsNow, invoke |-> ~previousResult.defined
                                         \/ Keys(previousResult) = {},
             args |-> params]
       ELSE [ids |-> narrowed, invoke |-> Len(narrowed) > 0, args |-> narrowed]

\* mutant: a narrowable operation ends its queue at the first backend that
\* answers anything, as the binary ones do
callBackFirstAnswerOnly(o, previousResult, idsNow, params) ==
    IF o \in BinaryOps
    THEN [ids |-> idsNow, invoke |-> StillEmpty(previousResult), args |-> params]
    ELSE [ids |-> idsNow,
          invoke |-> StillEmpty(previousResult) /\ Len(idsNow) > 0,
          args |-> idsNow]

\* the callBack each operation hands to queueProcessResults: the narrowed id
\* array it keeps in its closure, whether it invokes the backend, and with
\* which ids (the binary operations pass the caller's params on)
callBack(o, previousResult, idsNow, params) ==
    LET narrowed ==
            CASE o = "propertyInfo" -> propertyInfoFilter(idsNow, previousResult)
              [] o = "classInfo" -> classInfoFilter(idsNow, previousResult)
              [] o = "linkTypesInfo" -> linkTypesInfoFilter(idsNow, previousResult)
              [] o = "elementInfo" -> elementInfoFilter(idsNow, previousResult)
              [] o = "linksInfo" -> linksInfoFilter(idsNow, previousResult)
              [] OTHER -> idsNow
    IN IF o \in BinaryOps
       THEN [ids |-> idsNow, invoke |-> StillEmpty(previousResult), args |-> params]
       ELSE [ids |-> narrowed, invoke |-> Len(narrowed) > 0, args |-> narrowed]

\* lines 65-191: classTree and linkTypes always go through fetchSequentially,
\* the other operations only when mergeMode is 'fetchAll'
UsesFetchSequentially(o, mode) == o \in WholeOps \/ mode = "fetchAll"

\* ------------------------------------------------------------------ state
VARIABLES
    dataProviders,  \* this.dataProviders: the names, in registration order
    mergeMode,      \* this.mergeMode
    constructorArgs, \* what the constructor was called with
    scenario,       \* what the callers and the backends of this behaviour do
    calls           \* per invocation of an operation: its closure and promises

vars == <<dataProviders, mergeMode, constructorArgs, scenario, calls>>

\* an operation that has not been called yet
\* identities of the objects an operation hands to a backend: the caller's
\* params object and its id arrays, an object literal the operation creates
\* for the invocation of backend dp, the array Array.filter returns before
\* that invocation; classTree and linkTypes pass nothing
CallerParams == <<"params", 0>>
CallerIds == <<"params.ids", 0>>
CallerLinkTypeIds == <<"params.linkTypeIds", 0>>
Literal(dp) == <<"literal", dp>>
Filtered(dp) == <<"filtered", dp>>
NoObject == <<"undefined", 0>>

\* the id arrays reachable from the caller's params object
CallerArrays(o) ==
    IF o = "linksInfo" THEN {CallerIds, CallerLinkTypeIds}
    ELSE IF o \in NarrowOps THEN {CallerIds}
    ELSE {}

\* the argument object backend dp is invoked with: fetchSequentially passes
\* params itself (line 238), and so do the callbacks of linkTypesOf,
\* linkElements and filter (lines 151, 171, 185); the callbacks of the
\* narrowable operations build { ids: filtered array } (lines 75-76, 87-88,
\* 99-101, 116-117), linksInfo adding params.linkTypeIds (line 140)
ParamsHanded(o, viaFetch, dp) ==
    IF o \in WholeOps THEN [obj |-> NoObject, arrays |-> {}]
    ELSE IF viaFetch \/ o \in BinaryOps
    THEN [obj |-> CallerParams, arrays |-> CallerArrays(o)]
    ELSE [obj |-> Literal(dp),
          arrays |-> IF o = "linksInfo" THEN {Filtered(dp), CallerLinkTypeIds}
                     ELSE {Filtered(dp)}]

\* the error backend i fails with
ErrorOf(i) == [from |-> i]

\* the error a merge function throws
MergeError == [from |-> 0]

\* no error
NoError == [from |-> -1]

Idle ==
    [status |-> "idle", op |-> "none", params |-> <<>>,
     counter |-> 0,           \* queueProcessResults: counter
     responseList |-> <<>>,   \* queueProcessResults: responseList
     idsLeft |-> <<>>,        \* the id array in the operation's closure
     result |-> Undefined,    \* argument of the recursiveCall that is waiting
     handlers |-> <<>>,       \* arguments of the enclosing recursiveCalls whose
                              \* .catch can still run, innermost last
     resultPromises |-> <<>>, \* fetchSequentially: resultPromises
     backendCall |-> [i \in 1..Len(dataProviders) |-> NotInvoked],
     invoked |-> <<>>,        \* the backend invocations made, in order
     handed |-> <<>>,         \* the argument objects of those invocations
     log |-> {},              \* console.error output: the errors logged
     outOfOrder |-> FALSE,    \* history: some backend settled before an
                              \* earlier registered one that was still pending
     mergeInput |-> <<>>, mergeCalls |-> 0, merged |-> <<>>,
     mergeThrew |-> FALSE,    \* history: the merge function threw
     error |-> NoError]       \* what the operation threw or rejected with


Finished(q) == q.status \in {"resolved", "rejected", "threw"}

\* ----------------------------------------------- the scenarios (environment)
\* which call a caller may make next
CallerMay(c, o, req) ==
    CASE scenario = "single" -> c = 1
      [] scenario = "plain" -> c = 1
      [] scenario = "concurrent" -> o \notin WholeOps
      [] scenario \in {"b2", "twice"} ->
            \/ c = 1
            \/ /\ c = 2
               /\ Finished(calls[1])
               /\ o = calls[1].op
               /\ req = calls[1].params
      [] scenario = "policies" ->
            \/ c = 1 /\ o \in DictNarrowOps /\ mergeMode = "fetchAll"
            \/ /\ c = 2
               /\ Finished(calls[1])
               /\ mergeMode = "sequentialFetching"
               /\ o = calls[1].op
               /\ req = calls[1].params
      [] OTHER -> FALSE

\* whether a backend may throw synchronously when it is invoked
ThrowChoices == IF scenario \in {"single", "nested"} THEN BOOLEAN ELSE {FALSE}

\* whether the merge function may throw
MergeThrowChoices == IF scenario = "single" THEN BOOLEAN ELSE {FALSE}

\* In the scenario "nested" the first registered backend of the composite
\* that runs call 1 is itself a composite, with as many backends and the
\* same mode, and call 2 is the operation call 1 invokes on it; it resolves
\* with what its merge function returned.
IsInner(c, i) == scenario = "nested" /\ c = 1 /\ i = 1

InnerAnswer == [defined |-> TRUE, body |-> calls[2].merged]

\* what backend i may resolve an invocation of call c with
ResponsesTo(c, i) == IF IsInner(c, i) THEN {InnerAnswer} ELSE Responses(i)

\* call 2 asks backend i what call 1 asked it
AskedAgain(i) ==
    /\ calls[1].backendCall[i].state # "none"
    /\ calls[1].backendCall[i].args = calls[2].backendCall[i].args

\* whether backend i may reject the promise of its invocation in call c
MayReject(c, i) ==
    CASE scenario = "single" -> TRUE
      [] scenario = "b2" -> c = 1 /\ i = 2
      [] scenario = "concurrent" -> TRUE
      [] scenario = "nested" -> IsInner(c, i) => calls[2].status = "rejected"
      [] scenario = "twice" ->
            \* a backend's outcome depends only on what it is asked
            (c = 2 /\ AskedAgain(i)) => calls[1].backendCall[i].state = "rejected"
      [] OTHER -> FALSE

\* the ids an invocation asks about: those of its id array, any for the
\* operations without one
Asked(o, args) == IF o \in NarrowOps THEN Range(args) ELSE Ids

\* whether backend i may resolve the promise of its invocation in call c with r
MayResolve(c, i, r) ==
    CASE scenario = "single" -> TRUE
      [] scenario = "b2" ->
            \* the second registered backend contributes nothing to call 2;
            \* the others answer equal requests equally in both calls
            IF i = 2 THEN c = 2 /\ r \in {Answer(2, {}), Undefined}
            ELSE (c = 2 /\ calls[1].backendCall[i].state = "resolved"
                        /\ calls[1].backendCall[i].args = calls[2].backendCall[i].args)
                    => r = calls[1].backendCall[i].response
      [] scenario = "twice" ->
            (c = 2 /\ AskedAgain(i)) =>
                /\ calls[1].backendCall[i].state = "resolved"
                /\ r = calls[1].backendCall[i].response
      [] scenario \in {"plain", "concurrent"} ->
            \* backend i holds the record of id i and nothing else
            r = Answer(i, {i} \cap Asked(calls[c].op, calls[c].backendCall[i].args))
      [] scenario = "nested" ->
            IF IsInner(c, i) THEN calls[2].status = "resolved" /\ r = InnerAnswer
            ELSE r = Answer(i, {i} \cap Asked(calls[c].op, calls[c].backendCall[i].args))
      [] scenario = "policies" ->
            \* a backend returns records for requested ids only, and has a
            \* record for an id whatever other ids it is asked with
            IF c = 1
            THEN r.defined /\ Keys(r) \subseteq Range(calls[1].backendCall[i].args)
            ELSE r = Answer(i, Keys(calls[1].backendCall[i].response)
                                  \cap Range(calls[2].backendCall[i].args))
      [] OTHER -> FALSE

\* ------------------------------------------------- queueProcessResults
\* recursiveCall(res), lines 211-230, run on closure q with the enclosing
\* .catch handlers hs.  ctx is "sync" when it runs inside the operation's own
\* call and "callback" when it runs inside a .then/.catch callback; throws
\* says whether the backend throws instead of returning a promise.
\*   - no backend left, or the callBack returns undefined: resolve responseList
\*   - the backend throws: in the operation's own call the operation throws;
\*     in a callback the callback's promise rejects, which the innermost
\*     enclosing .catch handles, and with none left the operation rejects
\* mutant: the queue is walked from the last registered backend to the first
recursiveCallBackwards(q, res, hs, ctx, throws) ==
    IF Len(dataProviders) > q.counter
    THEN LET dp == Len(dataProviders) - q.counter
             cb == callBack(q.op, res, q.idsLeft, q.params)
             q1 == [q EXCEPT !.counter = @ + 1, !.idsLeft = cb.ids, !.handlers = hs]
             q2 == [q1 EXCEPT !.invoked = Append(@, [dp |-> dp, args |-> cb.args]),
                              !.handed = Append(@, ParamsHanded(q.op, FALSE, dp))]
         IN IF ~cb.invoke
            THEN [q1 EXCEPT !.status = "listReady"]
            ELSE [q2 EXCEPT !.backendCall[dp] = PendingCall(cb.args),
                            !.status = "pending",
                            !.result = res]
    ELSE [q EXCEPT !.status = "listReady", !.handlers = hs]

\* mutant: the promise is not resolved when the registry is exhausted or
\* the callBack returns undefined
recursiveCallNeverResolves(q, res, hs, ctx, throws) ==
    IF Len(dataProviders) > q.counter
    THEN LET dp == q.counter + 1
             cb == callBack(q.op, res, q.idsLeft, q.params)
             q1 == [q EXCEPT !.counter = dp, !.idsLeft = cb.ids, !.handlers = hs]
             q2 == [q1 EXCEPT !.invoked = Append(@, [dp |-> dp, args |-> cb.args]),
                              !.handed = Append(@, ParamsHanded(q.op, FALSE, dp))]
         IN IF ~cb.invoke
            THEN [q1 EXCEPT !.status = "stalled"]
            ELSE [q2 EXCEPT !.backendCall[dp] = PendingCall(cb.args),
                            !.status = "pending",
                            !.result = res]
    ELSE [q EXCEPT !.status = "stalled", !.handlers = hs]

recursiveCall(q, res, hs, ctx, throws) ==
    IF Len(dataProviders) > q.counter
    THEN LET dp == q.counter + 1
             cb == callBack(q.op, res, q.idsLeft, q.params)
             q1 == [q EXCEPT !.counter = dp, !.idsLeft = cb.ids, !.handlers = hs]
             q2 == [q1 EXCEPT !.invoked = Append(@, [dp |-> dp, args |-> cb.args]),
                              !.handed = Append(@, ParamsHanded(q.op, FALSE, dp))]
         IN IF ~cb.invoke
            THEN [q1 EXCEPT !.status = "listReady"]
            ELSE IF throws
            THEN [q2 EXCEPT !.backendCall[dp] = ThrewCall(cb.args),
                            !.status = IF ctx = "sync" THEN "threw"
                                       ELSE IF hs = <<>> THEN "rejected"
                                       ELSE "caught",
                            !.error = IF ctx = "sync" \/ hs = <<>>
                                      THEN ErrorOf(dp) ELSE @]
            ELSE [q2 EXCEPT !.backendCall[dp] = PendingCall(cb.args),
                            !.status = "pending",
                            !.result = res]
    ELSE [q EXCEPT !.status = "listReady", !.handlers = hs]

\* lines 205-210 and 231: counter = 0, responseList = [], recursiveCall()
\* mutant: counter and responseList outlive the operation that used them
queueProcessResultsKeepsState(q, throws) ==
    recursiveCall([q EXCEPT !.counter = calls[1].counter,
                            !.responseList = calls[1].responseList],
                  Undefined, <<>>, "sync", throws)

queueProcessResults(q, throws) ==
    recursiveCall([q EXCEPT !.counter = 0, !.responseList = <<>>],
                  Undefined, <<>>, "sync", throws)

\* an operation in mergeMode 'sequentialFetching' (lines 73-77, 85-89, 97-102,
\* 114-118, 129-141, 149-155, 169-175, 183-189)
QueueCall(c) ==
    \E o \in NarrowOps \cup BinaryOps, throws \in ThrowChoices :
      \E req \in RequestsOf(o) :
        /\ calls[c].status = "idle"
        /\ ~UsesFetchSequentially(o, mergeMode)
        /\ CallerMay(c, o, req)
        /\ calls' = [calls EXCEPT ![c] =
                        queueProcessResults(
                            [calls[c] EXCEPT !.op = o, !.params = req, !.idsLeft = req],
                            throws)]
        /\ UNCHANGED <<dataProviders, mergeMode, constructorArgs, scenario>>

\* lines 217-222: the backend's promise resolves with newResult
RecursiveThen(c) ==
    LET q == calls[c]
        dp == q.counter
    IN /\ q.status = "pending"
       /\ ~UsesFetchSequentially(q.op, mergeMode)
       /\ \E newResult \in ResponsesTo(c, dp), throws \in ThrowChoices :
            /\ MayResolve(c, dp, newResult)
            /\ calls' = [calls EXCEPT ![c] =
                  recursiveCall(
                      [q EXCEPT !.backendCall[dp].state = "resolved",
                                !.backendCall[dp].response = newResult,
                                !.responseList =
                                    Append(@, Tagged(dataProviders[dp], newResult))],
                      newResult, Append(q.handlers, q.result), "callback", throws)]
       /\ UNCHANGED <<dataProviders, mergeMode, constructorArgs, scenario>>

\* mutant: a rejection ends the queue with what was collected so far
RecursiveCatchGivesUp(c) ==
    LET q == calls[c]
        dp == q.counter
    IN /\ q.status = "pending"
       /\ ~UsesFetchSequentially(q.op, mergeMode)
       /\ MayReject(c, dp)
       /\ calls' = [calls EXCEPT ![c] =
                      [q EXCEPT !.backendCall[dp].state = "rejected",
                                !.log = @ \cup {ErrorOf(dp)},
                                !.status = "listReady"]]
       /\ UNCHANGED <<dataProviders, mergeMode, constructorArgs, scenario>>

\* mutant: a backend whose promise rejected is asked again
RecursiveCatchRetries(c) ==
    LET q == calls[c]
        dp == q.counter
    IN /\ q.status = "pending"
       /\ ~UsesFetchSequentially(q.op, mergeMode)
       /\ MayReject(c, dp)
       /\ \E throws \in ThrowChoices :
            calls' = [calls EXCEPT ![c] =
                  recursiveCall(
                      [q EXCEPT !.backendCall[dp].state = "rejected",
                                !.log = @ \cup {ErrorOf(dp)},
                                !.counter = dp - 1],
                      q.result, q.handlers, "callback", throws)]
       /\ UNCHANGED <<dataProviders, mergeMode, constructorArgs, scenario>>

\* mutant: after a rejection the next backend is asked for the whole request
RecursiveCatchStartsOver(c) ==
    LET q == calls[c]
        dp == q.counter
    IN /\ q.status = "pending"
       /\ ~UsesFetchSequentially(q.op, mergeMode)
       /\ MayReject(c, dp)
       /\ \E throws \in ThrowChoices :
            calls' = [calls EXCEPT ![c] =
                  recursiveCall(
                      [q EXCEPT !.backendCall[dp].state = "rejected",
                                !.log = @ \cup {ErrorOf(dp)},
                                !.idsLeft = q.params],
                      Undefined, q.handlers, "callback", throws)]
       /\ UNCHANGED <<dataProviders, mergeMode, constructorArgs, scenario>>

\* mutant: a rejection leaves an entry without payload in the response list
RecursiveCatchPushesAbsent(c) ==
    LET q == calls[c]
        dp == q.counter
    IN /\ q.status = "pending"
       /\ ~UsesFetchSequentially(q.op, mergeMode)
       /\ MayReject(c, dp)
       /\ \E throws \in ThrowChoices :
            calls' = [calls EXCEPT ![c] =
                  recursiveCall(
                      [q EXCEPT !.backendCall[dp].state = "rejected",
                                !.log = @ \cup {ErrorOf(dp)},
                                !.responseList =
                                    Append(@, Tagged(dataProviders[dp], Undefined))],
                      q.result, q.handlers, "callback", throws)]
       /\ UNCHANGED <<dataProviders, mergeMode, constructorArgs, scenario>>

\* lines 223-226: the backend's promise rejects
RecursiveCatch(c) ==
    LET q == calls[c]
        dp == q.counter
    IN /\ q.status = "pending"
       /\ ~UsesFetchSequentially(q.op, mergeMode)
       /\ MayReject(c, dp)
       /\ \E throws \in ThrowChoices :
            calls' = [calls EXCEPT ![c] =
                  recursiveCall(
                      [q EXCEPT !.backendCall[dp].state = "rejected",
                                !.log = @ \cup {ErrorOf(dp)}],
                      q.result, q.handlers, "callback", throws)]
       /\ UNCHANGED <<dataProviders, mergeMode, constructorArgs, scenario>>

\* lines 223-226 of an enclosing recursiveCall: a backend threw inside a
\* callback, the rejection reaches the innermost .catch still armed
EnclosingCatch(c) ==
    LET q == calls[c]
        top == Len(q.handlers)
    IN /\ q.status = "caught"
       /\ \E throws \in ThrowChoices :
            calls' = [calls EXCEPT ![c] =
                  recursiveCall(
                      [q EXCEPT !.log = @ \cup {ErrorOf(q.counter)}],
                      q.handlers[top], SubSeq(q.handlers, 1, top - 1),
                      "callback", throws)]
       /\ UNCHANGED <<dataProviders, mergeMode, constructorArgs, scenario>>

\* ---------------------------------------------------- fetchSequentially
Unsettled == [settled |-> FALSE, value |-> Tagged(<<"", 0>>, Undefined)]
SettledWith(v) == [settled |-> TRUE, value |-> v]

\* what backend i is handed by fetchSequentially, line 238: the caller's params
FetchArgs(q, i) == q.params

\* mutant: a backend is invoked once the one before it has settled; only
\* the first is invoked by the operation's own call
fetchSequentiallyOneByOne(q, throwAt) ==
    LET n == Len(dataProviders)
        first == IF n > 0 THEN 1 ELSE 0
    IN [q EXCEPT
          !.invoked = [i \in 1..first |-> [dp |-> i, args |-> q.params]],
          !.handed = [i \in 1..first |-> ParamsHanded(q.op, TRUE, i)],
          !.backendCall = [i \in 1..n |->
                              IF i = 1 THEN PendingCall(q.params) ELSE NotInvoked],
          !.status = "pending",
          !.resultPromises = [i \in 1..n |-> Unsettled]]

\* lines 237-239: dataProviders.map invokes the backends in registration
\* order inside the operation's own call.  throwAt = 0: every backend returns
\* a promise; throwAt = t > 0: backend t throws, map and the operation throw,
\* the backends after t are never invoked
fetchSequentially(q, throwAt) ==
    LET n == Len(dataProviders)
        last == IF throwAt = 0 THEN n ELSE throwAt
        q1 == [q EXCEPT
                 !.invoked = [i \in 1..last |-> [dp |-> i, args |-> FetchArgs(q, i)]],
                 !.handed = [i \in 1..last |-> ParamsHanded(q.op, TRUE, i)],
                 !.backendCall =
                     [i \in 1..n |->
                         IF i > last THEN NotInvoked
                         ELSE IF i = throwAt THEN ThrewCall(FetchArgs(q, i))
                         ELSE PendingCall(FetchArgs(q, i))]]
    IN IF throwAt = 0
       THEN [q1 EXCEPT !.status = "pending",
                       !.resultPromises = [i \in 1..n |-> Unsettled]]
       ELSE [q1 EXCEPT !.status = "threw",
                       !.error = ErrorOf(throwAt),
                       !.resultPromises = [i \in 1..(throwAt - 1) |-> Unsettled]]

\* an operation that goes through fetchSequentially (lines 66, 71, 83, 95,
\* 107, 112, 127, 147, 167, 181); classTree and linkTypes take no params
FetchAllCall(c) ==
    \E o \in Operations, throwAt \in 0..Len(dataProviders) :
      \E req \in RequestsOf(o) :
        /\ calls[c].status = "idle"
        /\ UsesFetchSequentially(o, mergeMode)
        /\ throwAt > 0 => TRUE \in ThrowChoices
        /\ CallerMay(c, o, req)
        /\ calls' = [calls EXCEPT ![c] =
                        fetchSequentially(
                            [calls[c] EXCEPT !.op = o, !.params = req, !.idsLeft = req],
                            throwAt)]
        /\ UNCHANGED <<dataProviders, mergeMode, constructorArgs, scenario>>

\* mutant: the outcomes are collected in the order the promises settle
SlotOfCompletion(q, i) ==
    Cardinality({j \in 1..Len(q.resultPromises) : q.resultPromises[j].settled}) + 1

\* where Promise.all puts the outcome of the i-th promise: at index i
SlotOf(q, i) == i

\* history only: backend i settles while an earlier registered one is pending
Overtakes(q, i) ==
    q.outOfOrder \/ \E j \in 1..(i - 1) : q.backendCall[j].state = "pending"

\* processResults, line 198: backend i resolved
processResultsThen(q, i, response) ==
    [q EXCEPT !.backendCall[i].state = "resolved",
              !.backendCall[i].response = response,
              !.outOfOrder = Overtakes(q, i),
              !.resultPromises[SlotOf(q, i)] =
                    SettledWith(Tagged(dataProviders[i], response))]

\* mutant: the rejection is logged and passed on
processResultsRethrows(q, i) ==
    [q EXCEPT !.backendCall[i].state = "rejected",
              !.log = @ \cup {ErrorOf(i)},
              !.status = "rejected"]

\* processResults, lines 199-202: backend i rejected
processResultsCatch(q, i) ==
    [q EXCEPT !.backendCall[i].state = "rejected",
              !.log = @ \cup {ErrorOf(i)},
              !.outOfOrder = Overtakes(q, i),
              !.resultPromises[SlotOf(q, i)] =
                    SettledWith(Tagged(dataProviders[i], Undefined))]

ProcessResultsThen(c) ==
    \E i \in 1..Len(dataProviders) :
        /\ calls[c].status = "pending"
        /\ UsesFetchSequentially(calls[c].op, mergeMode)
        /\ calls[c].backendCall[i].state = "pending"
        /\ \E response \in ResponsesTo(c, i) :
            /\ MayResolve(c, i, response)
            /\ calls' = [calls EXCEPT ![c] = processResultsThen(calls[c], i, response)]
        /\ UNCHANGED <<dataProviders, mergeMode, constructorArgs, scenario>>

ProcessResultsCatch(c) ==
    \E i \in 1..Len(dataProviders) :
        /\ calls[c].status = "pending"
        /\ UsesFetchSequentially(calls[c].op, mergeMode)
        /\ calls[c].backendCall[i].state = "pending"
        /\ MayReject(c, i)
        /\ calls' = [calls EXCEPT ![c] = processResultsCatch(calls[c], i)]
        /\ UNCHANGED <<dataProviders, mergeMode, constructorArgs, scenario>>

\* mutant: what the merge function throws is logged and an empty result returned
thenMergeSwallows(q, list, mergeThrows) ==
    [q EXCEPT !.mergeInput = list,
              !.mergeCalls = @ + 1,
              !.mergeThrew = mergeThrows,
              !.status = "resolved",
              !.log = IF mergeThrows THEN @ \cup {MergeError} ELSE @,
              !.merged = IF mergeThrows THEN <<>> ELSE mergeFunction(list)]

\* .then(mergeFunction): the list is handed to the merge function; what it
\* returns resolves the operation, what it throws rejects it
thenMerge(q, list, mergeThrows) ==
    [q EXCEPT !.mergeInput = list,
              !.mergeCalls = @ + 1,
              !.mergeThrew = mergeThrows,
              !.status = IF mergeThrows THEN "rejected" ELSE "resolved",
              !.error = IF mergeThrows THEN MergeError ELSE @,
              !.merged = IF mergeThrows THEN <<>> ELSE mergeFunction(list)]

\* line 240: Promise.all resolves once every promise of resultPromises has
\* settled, with their values in the order of resultPromises
PromiseAllThen(c) ==
    LET q == calls[c]
    IN /\ q.status = "pending"
       /\ UsesFetchSequentially(q.op, mergeMode)
       /\ \A i \in 1..Len(q.resultPromises) : q.resultPromises[i].settled
       /\ \E mergeThrows \in MergeThrowChoices :
            calls' = [calls EXCEPT ![c] =
                thenMerge(q, [i \in 1..Len(q.resultPromises) |->
                                 q.resultPromises[i].value], mergeThrows)]
       /\ UNCHANGED <<dataProviders, mergeMode, constructorArgs, scenario>>

\* mutant: an operation that ends leaves the composite in fetchAll mode
QueueThenSwitchesMode(c) ==
    LET q == calls[c]
    IN /\ q.status = "listReady"
       /\ calls' = [calls EXCEPT ![c] = thenMerge(q, q.responseList, FALSE)]
       /\ mergeMode' = "fetchAll"
       /\ UNCHANGED <<dataProviders, constructorArgs, scenario>>

\* .then(mergeX) of the queue operations (lines 77, 89, 102, 118, 141, 155,
\* 175, 189): the promise of queueProcessResults resolved with responseList
QueueThen(c) ==
    LET q == calls[c]
    IN /\ q.status = "listReady"
       /\ \E mergeThrows \in MergeThrowChoices :
            calls' = [calls EXCEPT ![c] = thenMerge(q, q.responseList, mergeThrows)]
       /\ UNCHANGED <<dataProviders, mergeMode, constructorArgs, scenario>>

\* ------------------------------------------------------ nested composites
\* an operation of the outer composite that goes through fetchSequentially:
\* dataProviders.map invokes the inner composite first, whose own map runs to
\* its end (or throws) inside that invocation, then the other backends
NestedFetchAllCall ==
    \E o \in Operations, innerThrowAt \in 0..Len(dataProviders),
       leafThrowAt \in {0} \cup 2..Len(dataProviders) :
      \E req \in RequestsOf(o) :
        /\ scenario = "nested"
        /\ calls[1].status = "idle" /\ calls[2].status = "idle"
        /\ UsesFetchSequentially(o, mergeMode)
        /\ LET inner == fetchSequentially(
                            [calls[2] EXCEPT !.op = o, !.params = req, !.idsLeft = req],
                            innerThrowAt)
               outer == fetchSequentially(
                            [calls[1] EXCEPT !.op = o, !.params = req, !.idsLeft = req],
                            IF inner.status = "threw" THEN 1 ELSE leafThrowAt)
           IN calls' = [calls EXCEPT ![1] = outer, ![2] = inner]
        /\ UNCHANGED <<dataProviders, mergeMode, constructorArgs, scenario>>

\* a sequentialFetching operation of the outer composite: its first
\* recursiveCall invokes the inner composite (unless nothing is asked), whose
\* own first recursiveCall runs inside that invocation
NestedQueueCall ==
    \E o \in NarrowOps \cup BinaryOps, innerThrows \in BOOLEAN :
      \E req \in RequestsOf(o) :
        /\ scenario = "nested"
        /\ calls[1].status = "idle" /\ calls[2].status = "idle"
        /\ ~UsesFetchSequentially(o, mergeMode)
        /\ LET inner == queueProcessResults(
                            [calls[2] EXCEPT !.op = o, !.params = req, !.idsLeft = req],
                            innerThrows)
               outer == queueProcessResults(
                            [calls[1] EXCEPT !.op = o, !.params = req, !.idsLeft = req],
                            inner.status = "threw")
           IN calls' = [calls EXCEPT
                           ![1] = outer,
                           ![2] = IF Len(outer.invoked) > 0 THEN inner ELSE calls[2]]
        /\ UNCHANGED <<dataProviders, mergeMode, constructorArgs, scenario>>

\* ---------------------------------------------------------- specifications
\* new CompositeDataProvider(input, {mergeMode}), no operation called yet
InitWith(inputs, modeParams, sc) ==
    /\ \E input \in inputs, modeParam \in modeParams :
          /\ constructorArgs = [dataProviders |-> input, mergeMode |-> modeParam]
          /\ dataProviders = Construct(input)
          /\ mergeMode = ConstructMode(modeParam)
    /\ scenario = sc
    /\ calls = [c \in CallIds |-> Idle]

Init == InitWith(BareInputs, MergeModes, "single")

Next ==
    \E c \in CallIds :
        \/ QueueCall(c)
        \/ RecursiveThen(c)
        \/ RecursiveCatch(c)
        \/ EnclosingCatch(c)
        \/ FetchAllCall(c)
        \/ ProcessResultsThen(c)
        \/ ProcessResultsCatch(c)
        \/ PromiseAllThen(c)
        \/ QueueThen(c)

Spec == Init /\ [][Next]_vars

\* Two runs of one operation on a registry B1, B2, B3, one after the other,
\* with the same request: in the first B2 rejects, in the second B2 resolves
\* with nothing; B1 and B3 resolve, no backend throws, the merge returns.
ThreeBare == {<<Bare, Bare, Bare>>}

InitB2 == InitWith(ThreeBare, MergeModes, "b2")

NextB2 ==
    \E c \in CallIds :
        \/ QueueCall(c)
        \/ RecursiveThen(c)
        \/ RecursiveCatch(c)
        \/ FetchAllCall(c)
        \/ ProcessResultsThen(c)
        \/ ProcessResultsCatch(c)
        \/ PromiseAllThen(c)
        \/ QueueThen(c)

SpecB2 == InitB2 /\ [][NextB2]_vars

\* The same operation invoked twice with the same arguments, the second time
\* after the first has ended, on backends whose outcome (the value resolved
\* with, or a rejection) depends only on what they are asked.
InitTwice == InitWith(BareInputs, MergeModes, "twice")

SpecTwice == InitTwice /\ [][NextB2]_vars

\* Two operations in flight at once on a sequentialFetching composite, their
\* backend completions interleaved in every way; a backend resolves with the
\* record of its own id when asked for it, or rejects.
InitConcurrent == InitWith(BareInputs, {"sequentialFetching"}, "concurrent")

NextConcurrent ==
    \E c \in CallIds :
        \/ QueueCall(c)
        \/ RecursiveThen(c)
        \/ RecursiveCatch(c)
        \/ QueueThen(c)

SpecConcurrent == InitConcurrent /\ [][NextConcurrent]_vars

\* A composite whose first backend is a composite: call 1 runs on the outer
\* one, call 2 on the inner one.  The plain backends of both resolve with the
\* record of their own id when asked for it, reject, or throw when invoked.
NestedInputs == {[k \in 1..n |-> Bare] : n \in 1..MaxBackends}

InitNested == InitWith(NestedInputs, MergeModes, "nested")

NextNested ==
    \/ NestedFetchAllCall
    \/ NestedQueueCall
    \/ \E c \in CallIds :
          \/ RecursiveThen(c)
          \/ RecursiveCatch(c)
          \/ EnclosingCatch(c)
          \/ ProcessResultsThen(c)
          \/ ProcessResultsCatch(c)
          \/ PromiseAllThen(c)
          \/ QueueThen(c)

SpecNested == InitNested /\ [][NextNested]_vars

\* The same backends behind two composites, one per merge mode: call 1 is a
\* propertyInfo or elementInfo on the fetchAll composite; when it has ended,
\* the sequentialFetching composite is constructed from the same list and
\* call 2 is the same operation with the same ids on it.  Every backend
\* resolves, with records for requested ids only, and has a record for an id
\* or not whatever else it is asked.
ConstructAgain ==
    /\ scenario = "policies"
    /\ Finished(calls[1])
    /\ mergeMode = "fetchAll"
    /\ constructorArgs' = [constructorArgs EXCEPT !.mergeMode = "sequentialFetching"]
    /\ dataProviders' = Construct(constructorArgs.dataProviders)
    /\ mergeMode' = ConstructMode("sequentialFetching")
    /\ UNCHANGED <<scenario, calls>>

InitPolicies == InitWith(BareInputs, {"fetchAll"}, "policies")

NextPolicies ==
    \/ ConstructAgain
    \/ \E c \in CallIds :
          \/ QueueCall(c)
          \/ RecursiveThen(c)
          \/ FetchAllCall(c)
          \/ ProcessResultsThen(c)
          \/ PromiseAllThen(c)
          \/ QueueThen(c)

SpecPolicies == InitPolicies /\ [][NextPolicies]_vars

\* Composites built from every list of bare and named entries (one name
\* spelled like a synthetic one), with and without a mergeMode, whose
\* backends all answer: backend i resolves with the record of id i when
\* asked for it.
Entries == {Bare, Named(<<"A">>), Named(SyntheticName(1))}

MixedInputs == UNION {[1..n -> Entries] : n \in 0..MaxBackends}

ModeParams == {"none"} \cup MergeModes

InitConstructed == InitWith(MixedInputs, ModeParams, "plain")

NextPlain ==
    \E c \in CallIds :
        \/ QueueCall(c)
        \/ RecursiveThen(c)
        \/ FetchAllCall(c)
        \/ ProcessResultsThen(c)
        \/ PromiseAllThen(c)
        \/ QueueThen(c)

SpecConstructed == InitConstructed /\ [][NextPlain]_vars

\* The same with a mergeMode outside the MergeMode type, which only a caller
\* that is not type-checked can pass.
InitAnyMode == InitWith(BareInputs, ModeParams \cup {"unknown"}, "plain")

SpecAnyMode == InitAnyMode /\ [][NextPlain]_vars

\* ------------------------------------------------------- shared vocabulary
\* no backend threw synchronously in this call: every failure was a rejection
OnlyRejections(q) ==
    \A i \in 1..Len(dataProviders) : q.backendCall[i].state # "threw"

\* the operation rejected because the merge function threw
MergeThrew(q) == q.status = "rejected" /\ q.mergeCalls = 1

ViaFetchAll(q) == q.status # "idle" /\ UsesFetchSequentially(q.op, mergeMode)
ViaQueue(q) == q.status # "idle" /\ ~UsesFetchSequentially(q.op, mergeMode)

\* what backend i contributed to the call: its response, or nothing
Contribution(q, i) ==
    IF q.backendCall[i].state = "resolved" THEN q.backendCall[i].response
    ELSE Undefined

\* ---------------------------------------------------------------------- C1
\* C1: when backends fail only by rejecting their promises (any subset of
\* them, all included), an operation never throws and never rejects unless
\* the merge function threw, and once no backend call is pending it is
\* resolved, or the merge function threw, or the merge is about to run; in
\* both merge modes, for every operation.
C1_FaultIsolation ==
    \A c \in CallIds :
        LET q == calls[c]
        IN OnlyRejections(q) =>
              /\ q.status \notin {"threw", "caught"}
              /\ q.status = "rejected" => MergeThrew(q)
              /\ (q.status # "idle"
                  /\ \A i \in 1..Len(dataProviders) :
                        q.backendCall[i].state # "pending")
                    => \/ q.status = "resolved"
                       \/ MergeThrew(q)
                       \/ ENABLED (PromiseAllThen(c) \/ QueueThen(c))

\* every backend of a registry of two or more rejected, the operation resolved
C1_Witness ==
    \E c \in CallIds :
        /\ calls[c].status = "resolved"
        /\ Len(dataProviders) >= 2
        /\ mergeMode = "sequentialFetching"
        /\ calls[c].op = "elementInfo"
        /\ \A i \in 1..Len(dataProviders) : calls[c].backendCall[i].state = "rejected"

\* ---------------------------------------------------------------------- C2
\* C2: a backend that throws synchronously when invoked is isolated like a
\* rejection: the operation does not throw, and rejects only when the merge
\* function threw; in both merge modes and at every registry position.
C2_SyncThrowIsolated ==
    \A c \in CallIds :
        /\ calls[c].status # "threw"
        /\ calls[c].status = "rejected" => MergeThrew(calls[c])

\* ---------------------------------------------------------------------- C3
\* C3: in fetchAll mode, whatever the order in which the backends settle,
\* the list handed to the merge function has one entry per registered
\* backend, entry i tagged with the i-th registered name and carrying the
\* i-th backend's response (nothing when it rejected).
C3_RegistrationOrder ==
    \A c \in CallIds :
        LET q == calls[c]
        IN ViaFetchAll(q) /\ q.mergeCalls > 0 =>
              /\ Len(q.mergeInput) = Len(dataProviders)
              /\ \A i \in 1..Len(dataProviders) :
                    /\ q.mergeInput[i].dataSourceName = dataProviders[i]
                    /\ q.mergeInput[i].response = Contribution(q, i)

\* merged after the last registered backend settled before the first one,
\* with both a resolved and a rejected backend
C3_Witness ==
    \E c \in CallIds :
        LET q == calls[c]
        IN /\ ViaFetchAll(q) /\ q.mergeCalls = 1 /\ q.outOfOrder
           /\ \E i, j \in 1..Len(dataProviders) :
                /\ q.backendCall[i].state = "rejected"
                /\ q.backendCall[j].state = "resolved"
                /\ Keys(q.backendCall[j].response) # {}

\* ---------------------------------------------------------------------- C4
\* C4: with B1, B2, B3 registered in that order, the run in which B2 rejects
\* and the run in which B2 resolves with nothing, of the same operation with
\* the same request, end with the same merged result; B1 and B3 are invoked
\* in the one exactly when they are in the other, with the same arguments,
\* and answer the same; in fetchAll mode entries 1 and 3 of the list handed
\* to the merge function carry B1's and B3's responses and entry 2 nothing.
C4_RejectionContributesNothing ==
    LET r == calls[1]
        s == calls[2]
    IN Finished(r) /\ Finished(s) =>
          /\ r.status = "resolved" /\ s.status = "resolved"
          /\ r.merged = s.merged
          /\ \A i \in {1, 3} :
                /\ r.backendCall[i].state = s.backendCall[i].state
                /\ r.backendCall[i].args = s.backendCall[i].args
                /\ r.backendCall[i].response = s.backendCall[i].response
          /\ ViaFetchAll(r) =>
                /\ Len(r.mergeInput) = 3
                /\ r.mergeInput[1] = Tagged(dataProviders[1], r.backendCall[1].response)
                /\ r.mergeInput[2] = Tagged(dataProviders[2], Undefined)
                /\ r.mergeInput[3] = Tagged(dataProviders[3], r.backendCall[3].response)

\* both runs of a narrowing elementInfo([1, 2]) ended: B1 resolved id 1, B2
\* rejected in the first run and resolved in the second, B3 was asked for
\* the rest and resolved it
C4_Witness ==
    /\ Finished(calls[1]) /\ Finished(calls[2])
    /\ mergeMode = "sequentialFetching"
    /\ calls[1].op = "elementInfo" /\ calls[1].params = <<1, 2>>
    /\ Keys(calls[1].backendCall[1].response) = {1}
    /\ calls[1].backendCall[2].state = "rejected"
    /\ calls[2].backendCall[2].state = "resolved"
    /\ calls[1].backendCall[3].args = <<2>>
    /\ Keys(calls[1].backendCall[3].response) = {2}
    /\ DOMAIN calls[1].merged = {1, 2}

\* ---------------------------------------------------------------------- C5
\* the ids resolved by the backends registered before the k-th that succeeded
ResolvedBefore(q, k) ==
    UNION {Keys(q.backendCall[j].response) :
             j \in {h \in 1..(k - 1) : q.backendCall[h].state = "resolved"}}

\* the requested ids no backend before the k-th has resolved, in request order
Remaining(q, k) ==
    SelectSeq(q.params, LAMBDA id : id \notin ResolvedBefore(q, k))

\* C5: in sequentialFetching mode, for classInfo, propertyInfo, linkTypesInfo
\* and elementInfo, every backend that is invoked receives exactly the
\* requested ids minus the ids resolved by any earlier backend that
\* succeeded, whatever the earlier backends did.
C5_NarrowingExact ==
    \A c \in CallIds :
        LET q == calls[c]
        IN ViaQueue(q) /\ q.op \in DictNarrowOps \cup ListNarrowOps =>
              \A n \in 1..Len(q.invoked) :
                  q.invoked[n].args = Remaining(q, q.invoked[n].dp)

\* elementInfo([1, 2]): the first backend resolved id 1, the second resolved
\* nothing, the third is invoked with [2]
C5_Witness ==
    \E c \in CallIds :
        LET q == calls[c]
        IN /\ ViaQueue(q) /\ q.op = "elementInfo" /\ q.params = <<1, 2>>
           /\ Len(dataProviders) >= 3
           /\ q.backendCall[1].state = "resolved"
           /\ Keys(q.backendCall[1].response) = {1}
           /\ q.backendCall[2].state = "resolved"
           /\ Keys(q.backendCall[2].response) = {}
           /\ q.backendCall[3].state = "pending"
           /\ q.backendCall[3].args = <<2>>

\* ---------------------------------------------------------------------- C6
\* C6: in sequentialFetching mode, for the narrowable operations, a backend
\* is never invoked once every requested id has been resolved by earlier
\* backends, and when the operation has ended every backend that was not
\* invoked had nothing left to be asked at its turn.
C6_NarrowingSkip ==
    \A c \in CallIds :
        LET q == calls[c]
        IN ViaQueue(q) /\ q.op \in NarrowOps =>
              /\ \A n \in 1..Len(q.invoked) : Remaining(q, q.invoked[n].dp) # <<>>
              /\ Finished(q) =>
                    \A k \in 1..Len(dataProviders) :
                        q.backendCall[k].state = "none" => Remaining(q, k) = <<>>

\* ---------------------------------------------------------------------- C7
\* backend j failed in this call, or resolved with an empty result
FailedOrEmpty(q, j) ==
    \/ q.backendCall[j].state \in {"rejected", "threw"}
    \/ q.backendCall[j].state = "resolved" /\ Keys(q.backendCall[j].response) = {}

\* C7: in sequentialFetching mode, for linkTypesOf, linkElements and filter,
\* a backend is invoked only if every backend registered before it failed or
\* resolved with an empty result; so once a backend has resolved with a
\* non-empty result no later backend is invoked.
C7_BinaryShortCircuit ==
    \A c \in CallIds :
        LET q == calls[c]
        IN ViaQueue(q) /\ q.op \in BinaryOps =>
              \A n \in 1..Len(q.invoked) :
                  \A j \in 1..(q.invoked[n].dp - 1) : FailedOrEmpty(q, j)

\* filter resolved: the first backend answered with a non-empty result, the
\* backends after it were not invoked
C7_Witness ==
    \E c \in CallIds :
        LET q == calls[c]
        IN /\ ViaQueue(q) /\ q.op = "filter" /\ q.status = "resolved"
           /\ Len(dataProviders) >= 3
           /\ q.backendCall[1].state = "resolved"
           /\ Keys(q.backendCall[1].response) # {}
           /\ \A k \in 2..Len(dataProviders) : q.backendCall[k].state = "none"
           /\ DOMAIN q.merged = Keys(q.backendCall[1].response)

\* ---------------------------------------------------------------------- C8
\* every registered backend was invoked once, in registration order, each
\* with the caller's params
FannedOut(q) ==
    q.invoked = [i \in 1..Len(dataProviders) |-> [dp |-> i, args |-> q.params]]

\* C8: classTree and linkTypes, once called, have invoked every registered
\* backend, in both merge modes, and what they merge is the list of all the
\* registered backends' tagged responses.
C8_WholeCatalogFanOut ==
    \A c \in CallIds :
        LET q == calls[c]
        IN q.status # "idle" /\ q.op \in WholeOps =>
              /\ FannedOut(q)
              /\ q.mergeCalls > 0 => Len(q.mergeInput) = Len(dataProviders)

\* ---------------------------------------------------------------------- C9
\* the backends that resolved with a record for id in this call
Holders(q, id) ==
    {i \in 1..Len(dataProviders) :
        q.backendCall[i].state = "resolved" /\ id \in Keys(q.backendCall[i].response)}

\* C9: for propertyInfo and elementInfo, in both merge modes, the entry of
\* the resolved result for an id is the payload of the earliest registered
\* backend that answered that id (the payload of backend i is i).
C9_FirstRegisteredWins ==
    \A c \in CallIds :
        LET q == calls[c]
        IN q.status = "resolved" /\ q.op \in DictNarrowOps =>
              \A id \in DOMAIN q.merged :
                  /\ Holders(q, id) # {}
                  /\ \A i \in Holders(q, id) : q.merged[id] <= i
                  /\ q.merged[id] \in Holders(q, id)

\* elementInfo in fetchAll mode resolved: the first and the second backend
\* both answered id 2, the second settled first, and entry 2 is the first's
C9_Witness ==
    \E c \in CallIds :
        LET q == calls[c]
        IN /\ q.status = "resolved" /\ q.op = "elementInfo"
           /\ mergeMode = "fetchAll" /\ q.outOfOrder
           /\ {1, 2} \subseteq Holders(q, 2)
           /\ q.merged[2] = 1

\* --------------------------------------------------------------------- C10
\* C10: in fetchAll mode an operation, once called, has invoked every
\* registered backend exactly once, each with the caller's full request,
\* whatever the other backends do.
C10_FetchAllInvokesAll ==
    \A c \in CallIds :
        ViaFetchAll(calls[c]) /\ mergeMode = "fetchAll" => FannedOut(calls[c])

\* --------------------------------------------------------------------- C11
\* how often backend i was invoked in the call
TimesInvoked(q, i) ==
    Cardinality({n \in 1..Len(q.invoked) : q.invoked[n].dp = i})

\* C11: within one operation every registered backend is invoked at most
\* once, in both merge modes, whatever fails; a backend that failed is not
\* invoked again.
C11_NoRetry ==
    \A c \in CallIds :
        \A i \in 1..Len(dataProviders) : TimesInvoked(calls[c], i) <= 1

\* a sequentialFetching operation ended after its first backend rejected and
\* a later one was invoked
C11_Witness ==
    \E c \in CallIds :
        LET q == calls[c]
        IN /\ ViaQueue(q) /\ Finished(q)
           /\ Len(dataProviders) >= 2
           /\ q.backendCall[1].state = "rejected"
           /\ q.backendCall[2].state \in {"resolved", "rejected"}
           /\ TimesInvoked(q, 1) = 1

\* --------------------------------------------------------------------- C12
\* C12: when the merge function throws, the operation rejects with the error
\* the merge function threw; the error is not logged and ignored, and no
\* result is produced, in both merge modes.
C12_MergeThrowRejects ==
    \A c \in CallIds :
        LET q == calls[c]
        IN q.mergeThrew =>
              /\ q.status = "rejected"
              /\ q.error = MergeError
              /\ MergeError \notin q.log
              /\ q.merged = <<>>

\* the merge function threw on the list of a sequentialFetching operation in
\* which a backend had rejected and another had answered
C12_Witness ==
    \E c \in CallIds :
        LET q == calls[c]
        IN /\ ViaQueue(q) /\ q.mergeThrew
           /\ Len(q.mergeInput) >= 1
           /\ \E i \in 1..Len(dataProviders) : q.backendCall[i].state = "rejected"

\* --------------------------------------------------------------------- C13
\* every registered backend was invoked and failed
AllFailed(q) ==
    /\ q.status # "idle"
    /\ \A i \in 1..Len(dataProviders) :
          q.backendCall[i].state \in {"rejected", "threw"}

\* no entry of the list carries a payload
NoPayload(list) == \A k \in 1..Len(list) : ~list[k].response.defined

\* C13: when every registered backend fails, the operation does not throw
\* and does not reject (unless the merge function threw); it resolves with
\* what the merge function returns for a list without any payload, in both
\* merge modes.
C13_AllFailResolves ==
    \A c \in CallIds :
        LET q == calls[c]
        IN AllFailed(q) =>
              /\ q.status \notin {"threw", "caught"}
              /\ q.status = "rejected" => q.mergeThrew
              /\ q.status = "resolved" =>
                    /\ NoPayload(q.mergeInput)
                    /\ q.merged = mergeFunction(q.mergeInput)
              /\ \/ Finished(q)
                 \/ ENABLED (PromiseAllThen(c) \/ QueueThen(c))

\* --------------------------------------------------------------------- C14
\* C14: no backend is handed the caller's params object or one of its id
\* arrays, and no two backends of an operation are handed the same object or
\* the same id array; every operation, both merge modes.
C14_ParameterIsolation ==
    \A c \in CallIds :
        LET q == calls[c]
        IN \A n \in 1..Len(q.handed) :
              q.handed[n].obj # NoObject =>
                 /\ q.handed[n].obj # CallerParams
                 /\ q.handed[n].arrays \cap CallerArrays(q.op) = {}
                 /\ \A k \in 1..Len(q.handed) :
                       k # n => /\ q.handed[k].obj # q.handed[n].obj
                                /\ q.handed[k].arrays \cap q.handed[n].arrays = {}

\* --------------------------------------------------------------------- C15
\* the call went through queueProcessResults: a recursiveCall advanced the
\* counter or resolved the response list
Sequential(q) == q.counter > 0 \/ q.status = "listReady"

BareUpTo(input, k) == {h \in 1..k : ~isDefenition(input[h])}

\* C16: the registry has the length and order of the constructor's list; a
\* named entry keeps its name; the j-th bare entry, counting bare entries
\* only, is named 'dataProvider_' + j wherever it stands.
C16_RegistryConstruction ==
    LET input == constructorArgs.dataProviders
    IN /\ Len(dataProviders) = Len(input)
       /\ \A k \in 1..Len(input) :
             dataProviders[k] =
                IF isDefenition(input[k]) THEN input[k].name
                ELSE SyntheticName(Cardinality(BareUpTo(input, k)))

\* two bare backends listed after a named one
C16_Witness ==
    /\ Len(constructorArgs.dataProviders) >= 3
    /\ isDefenition(constructorArgs.dataProviders[1])
    /\ constructorArgs.dataProviders[2] = Bare
    /\ constructorArgs.dataProviders[3] = Bare
    /\ dataProviders[2] = SyntheticName(1)
    /\ dataProviders[3] = SyntheticName(2)

\* --------------------------------------------------------------------- C17
\* C17: no two entries of the registry have the same name, whatever list the
\* composite was constructed from.
C17_NamesUnique ==
    \A j, k \in 1..Len(dataProviders) :
        j # k => dataProviders[j] # dataProviders[k]

\* --------------------------------------------------------------------- C18
\* C18: no composite with an empty registry exists (construction from an
\* empty list fails).
C18_NonEmptyRegistry == Len(dataProviders) > 0

\* --------------------------------------------------------------------- C19
\* C19: no operation runs under a mergeMode other than the two defined
\* policies (construction with such a value fails).
C19_KnownPolicy ==
    \A c \in CallIds :
        calls[c].status # "idle" => mergeMode \in MergeModes

\* --------------------------------------------------------------------- C20
\* C20: an operation invoked a second time with the same arguments, on
\* backends whose outcomes depend only on what they are asked, invokes the
\* same backends with the same arguments in the same order and hands the
\* merge function the same tagged list as the first time, whatever the order
\* in which the backends' promises settle; it ends as the first one did.
C20_Idempotent ==
    (Finished(calls[1]) /\ Finished(calls[2])) =>
        /\ calls[2].op = calls[1].op /\ calls[2].params = calls[1].params
        /\ calls[2].invoked = calls[1].invoked
        /\ calls[2].mergeInput = calls[1].mergeInput
        /\ calls[2].merged = calls[1].merged
        /\ calls[2].status = calls[1].status

\* both invocations of a sequentialFetching operation ended after a
\* rejection and a narrowing, or both fetchAll invocations ended although
\* their backends settled in different orders
C20_Witness ==
    /\ Finished(calls[1]) /\ Finished(calls[2])
    /\ Len(dataProviders) >= 2
    /\ \/ /\ ViaQueue(calls[2])
          /\ Len(calls[2].invoked) >= 2
          /\ Len(calls[2].mergeInput) >= 1
       \/ /\ ViaFetchAll(calls[2])
          /\ calls[2].outOfOrder /\ ~calls[1].outOfOrder

\* --------------------------------------------------------------------- C22
\* the backend call has settled: its promise resolved or rejected
Settled(q, i) == q.backendCall[i].state \in {"resolved", "rejected"}

C23_JoinAll ==
    \A c \in CallIds :
        LET q == calls[c]
        IN (mergeMode = "fetchAll" /\ ViaFetchAll(q)) =>
              /\ q.mergeCalls <= 1
              /\ q.mergeCalls = 1 =>
                    \A i \in 1..Len(dataProviders) : Settled(q, i)
              /\ Finished(q) => q.mergeCalls = 1
              /\ (\E i \in 1..Len(dataProviders) :
                      q.backendCall[i].state = "pending") => ~Finished(q)

\* --------------------------------------------------------------------- C24
\* C24: in sequentialFetching mode (narrowable and binary operations) at most
\* one backend call is in flight at any moment, a backend is invoked only
\* when the call of the one invoked before it is no longer pending, and the
\* backends are invoked in registration order without skipping: the n-th
\* invocation is that of the n-th registered backend.
C24_OneAtATimeInOrder ==
    \A c \in CallIds :
        LET q == calls[c]
        IN ViaQueue(q) =>
              /\ Cardinality({i \in 1..Len(dataProviders) :
                                q.backendCall[i].state = "pending"}) <= 1
              /\ \A n \in 1..Len(q.invoked) :
                    /\ q.invoked[n].dp = n
                    /\ n < Len(q.invoked) =>
                          q.backendCall[q.invoked[n].dp].state # "pending"

\* the third backend is in flight after the first resolved and the second
\* rejected
C24_Witness ==
    \E c \in CallIds :
        LET q == calls[c]
        IN /\ ViaQueue(q) /\ Len(q.invoked) = 3
           /\ q.backendCall[1].state = "resolved"
           /\ q.backendCall[2].state = "rejected"
           /\ q.backendCall[3].state = "pending"

\* --------------------------------------------------------------------- C25
\* C25: as long as the call of an invoked backend has not settled, the
\* operation has neither resolved nor rejected; in fetchAll mode every other
\* backend has been invoked all the same, in sequentialFetching mode no
\* backend registered after that one has been invoked.  A call that never
\* settles is one that is pending in every state from its invocation on.
C25_HungBackend ==
    \A c \in CallIds :
        LET q == calls[c]
        IN \A i \in 1..Len(dataProviders) :
              q.backendCall[i].state = "pending" =>
                 /\ q.status \notin {"resolved", "rejected"}
                 /\ ViaFetchAll(q) =>
                       \A j \in 1..Len(dataProviders) :
                           q.backendCall[j].state # "none"
                 /\ ViaQueue(q) =>
                       \A j \in (i + 1)..Len(dataProviders) :
                           q.backendCall[j].state = "none"

\* --------------------------------------------------------------------- C26
\* the responses the call's own backends resolved with, tagged, in
\* registration order
RECURSIVE OwnResponses(_, _)
OwnResponses(q, k) ==
    IF k = 0 THEN <<>>
    ELSE IF q.backendCall[k].state = "resolved"
         THEN Append(OwnResponses(q, k - 1),
                     Tagged(dataProviders[k], q.backendCall[k].response))
         ELSE OwnResponses(q, k - 1)

\* C26: with two sequentialFetching operations in flight at once, under
\* every interleaving of their backend completions, each operation's counter
\* is the number of its own invocations, its response list holds the
\* responses to its own calls, every invocation carries its own request
\* narrowed by its own earlier responses, and what it hands to the merge
\* function is its own response list: all as when it runs alone.
C26_PerCallState ==
    \A c \in CallIds :
        LET q == calls[c]
        IN ViaQueue(q) =>
              /\ q.counter \in {Len(q.invoked), Len(q.invoked) + 1}
              /\ q.counter = Len(q.invoked) + 1 => q.status \in {"listReady", "resolved"}
              /\ q.responseList = OwnResponses(q, Len(dataProviders))
              /\ \A n \in 1..Len(q.invoked) :
                    /\ q.invoked[n].dp = n
                    /\ q.invoked[n].args =
                          IF q.op \in NarrowOps THEN Remaining(q, n) ELSE q.params
              /\ q.mergeCalls > 0 =>
                    /\ q.mergeInput = q.responseList
                    /\ q.merged = mergeFunction(q.responseList)

\* both operations are in flight, at different backends, each with a
\* response of its own collected and different ids left
C26_Witness ==
    /\ calls[1].status = "pending" /\ calls[2].status = "pending"
    /\ calls[1].op \in NarrowOps /\ calls[2].op \in NarrowOps
    /\ calls[1].counter # calls[2].counter
    /\ calls[1].idsLeft # calls[2].idsLeft
    /\ Len(calls[1].responseList) > 0 /\ Len(calls[2].responseList) > 0

\* --------------------------------------------------------------------- C27
\* C27: no step of any operation, in either mode, whatever the backends
\* return or throw, changes the registry (length, order, names) or the merge
\* mode.
C27_ReadOnlyAfterConstruction ==
    [][dataProviders' = dataProviders /\ mergeMode' = mergeMode]_vars

\* an operation has ended after one backend rejected and another threw, and
\* the registry and the mode are still what the constructor built
C27_Witness ==
    \E c \in CallIds :
        /\ Finished(calls[c])
        /\ Len(dataProviders) >= 2
        /\ \E i, j \in 1..Len(dataProviders) :
              /\ calls[c].backendCall[i].state = "rejected"
              /\ calls[c].backendCall[j].state = "threw"
        /\ dataProviders = Construct(constructorArgs.dataProviders)
        /\ mergeMode = ConstructMode(constructorArgs.mergeMode)

\* --------------------------------------------------------------------- C28
\* C28: in a step in which the call of backend k rejects during a narrowable
\* sequentialFetching operation, the collected responses stay as they are
\* and, when a backend is registered after k, it is invoked in that step
\* with exactly the ids backend k was given.
C28_FailureKeepsAccumulator ==
    [][\A c \in CallIds : \A k \in 1..Len(dataProviders) :
          (/\ ViaQueue(calls[c]) /\ calls[c].op \in NarrowOps
           /\ calls[c].backendCall[k].state = "pending"
           /\ calls'[c].backendCall[k].state = "rejected")
          => /\ calls'[c].responseList = calls[c].responseList
             /\ k < Len(dataProviders) =>
                   /\ calls'[c].backendCall[k + 1].state # "none"
                   /\ calls'[c].backendCall[k + 1].args = calls[c].backendCall[k].args
                   /\ calls'[c].idsLeft = calls[c].idsLeft]_vars

\* elementInfo([1, 2]): the first backend resolved id 1, the second, asked
\* for [2], rejected, and the third is asked for [2]
C28_Witness ==
    \E c \in CallIds :
        LET q == calls[c]
        IN /\ ViaQueue(q) /\ q.op = "elementInfo" /\ q.params = <<1, 2>>
           /\ Len(dataProviders) >= 3
           /\ q.backendCall[1].state = "resolved"
           /\ Keys(q.backendCall[1].response) = {1}
           /\ q.backendCall[2].state = "rejected"
           /\ q.backendCall[2].args = <<2>>
           /\ q.backendCall[3].state = "pending"
           /\ q.backendCall[3].args = <<2>>
           /\ Len(q.responseList) = 1

\* --------------------------------------------------------------------- C29
\* backend i resolved with a payload that is not empty
ResolvedNonEmpty(q, i) ==
    q.backendCall[i].state = "resolved" /\ Keys(q.backendCall[i].response) # {}

\* C29: in a binary sequentialFetching operation a failed backend counts as
\* an empty one: a backend all of whose predecessors failed or resolved
\* empty is invoked, with the caller's request; and the result of a resolved
\* operation is the payload of the first backend that resolved non-empty,
\* or the merge of nothing when none did.
C29_BinaryFailureAsEmpty ==
    \A c \in CallIds :
        LET q == calls[c]
            n == Len(dataProviders)
        IN (ViaQueue(q) /\ q.op \in BinaryOps) =>
              /\ \A k \in 1..n :
                    (\A j \in 1..(k - 1) : FailedOrEmpty(q, j)) =>
                        /\ q.backendCall[k].state # "none"
                        /\ q.backendCall[k].args = q.params
              /\ q.status = "resolved" =>
                    IF \E i \in 1..n : ResolvedNonEmpty(q, i)
                    THEN LET first == CHOOSE i \in 1..n :
                                 /\ ResolvedNonEmpty(q, i)
                                 /\ \A j \in 1..(i - 1) : ~ResolvedNonEmpty(q, j)
                         IN q.merged = q.backendCall[first].response.body
                    ELSE q.merged = mergeFunction(<<>>)

\* --------------------------------------------------------------------- C30
\* C30: in a sequentialFetching linksInfo every invoked backend is given the
\* requested element ids minus those that are the source of a link returned
\* by an earlier backend that succeeded, together with the caller's
\* linkTypeIds array, and no backend is invoked with no element id left.
C30_LinksInfoNarrowing ==
    \A c \in CallIds :
        LET q == calls[c]
        IN (ViaQueue(q) /\ q.op = "linksInfo") =>
              \A n \in 1..Len(q.invoked) :
                  /\ q.invoked[n].args = Remaining(q, q.invoked[n].dp)
                  /\ q.invoked[n].args # <<>>
                  /\ CallerLinkTypeIds \in q.handed[n].arrays

\* linksInfo for elements 1 and 2: the first backend returned a link from 1,
\* the second rejected, the third is asked about 2 only
C30_Witness ==
    \E c \in CallIds :
        LET q == calls[c]
        IN /\ ViaQueue(q) /\ q.op = "linksInfo" /\ q.params = <<1, 2>>
           /\ Len(dataProviders) >= 3
           /\ q.backendCall[1].state = "resolved"
           /\ Keys(q.backendCall[1].response) = {1}
           /\ q.backendCall[2].state = "rejected"
           /\ q.backendCall[3].state = "pending"
           /\ q.backendCall[3].args = <<2>>

\* --------------------------------------------------------------------- C21
\* C21: a composite registered as the first backend of another behaves as
\* one backend: when the outer operation invokes it, the same operation runs
\* on it with the arguments the outer one hands over; what the outer merge
\* function receives under its registry name is what it resolved with; and
\* it never fails towards the outer composite (its merge function does not
\* throw here, so only its own backends fail): its call never throws and
\* never rejects.
C21_Substitutable ==
    LET outer == calls[1]
        inner == calls[2]
    IN /\ outer.backendCall[1].state # "none" =>
             /\ inner.status # "idle"
             /\ inner.op = outer.op
             /\ inner.params = outer.backendCall[1].args
       /\ outer.backendCall[1].state \notin {"rejected", "threw"}
       /\ (outer.mergeCalls > 0 /\ outer.backendCall[1].state # "none") =>
             /\ inner.status = "resolved"
             /\ Tagged(dataProviders[1], InnerAnswer) = outer.mergeInput[1]

\* --------------------------------------------------------------------- C31
\* C31: for every operation and in both merge modes the list handed to the
\* merge function has exactly one entry per registered backend, entry i
\* tagged with the i-th registered name, and the entry of a backend that did
\* not resolve (it failed, or was not asked) carries no payload.
C31_OneEntryPerBackend ==
    \A c \in CallIds :
        LET q == calls[c]
        IN q.mergeCalls > 0 =>
              /\ Len(q.mergeInput) = Len(dataProviders)
              /\ \A i \in 1..Len(dataProviders) :
                    /\ q.mergeInput[i].dataSourceName = dataProviders[i]
                    /\ q.backendCall[i].state # "resolved" =>
                          ~q.mergeInput[i].response.defined

\* --------------------------------------------------------------------- C32
\* console.error(error), lines 200 and 224: the entry written is the value the
\* backend failed with and nothing else; an entry names a backend and an
\* operation when it carries them
Identifies(entry, name, o) ==
    /\ "dataSourceName" \in DOMAIN entry
    /\ entry.dataSourceName = name
    /\ "functionName" \in DOMAIN entry
    /\ entry.functionName = o

\* C32: every backend failure that was isolated (its rejection was caught by
\* processResults or by the queue) has left a log entry, and that entry names
\* the failing backend and the operation that was running, in both modes.
C32_FailureLogged ==
    \A c \in CallIds :
        LET q == calls[c]
        IN \A i \in 1..Len(dataProviders) :
              q.backendCall[i].state = "rejected" =>
                  \E entry \in q.log :
                      /\ entry = ErrorOf(i)
                      /\ Identifies(entry, dataProviders[i], q.op)

\* --------------------------------------------------------------------- C33
\* Scheduling: the promise of every backend call that was made settles (the
\* premise of the claim), and a callback whose promise has settled is run by
\* the event loop (.then(mergeFunction) of lines 240 and 77.., the enclosing
\* .catch of line 223).  Nothing makes a caller call.
Fairness ==
    \A c \in CallIds :
        /\ WF_vars(RecursiveThen(c) \/ RecursiveCatch(c))
        /\ WF_vars(ProcessResultsThen(c) \/ ProcessResultsCatch(c))
        /\ WF_vars(EnclosingCatch(c))
        /\ WF_vars(PromiseAllThen(c))
        /\ WF_vars(QueueThen(c))

SpecLive == Init /\ [][Next]_vars /\ Fairness

\* the operation's promise has settled
OperationSettled(q) == q.status \in {"resolved", "rejected"}

\* C33: an operation that was called eventually settles, provided every
\* backend call made for it settles (no backend throws instead of returning
\* a promise); when moreover the merge function returns, it resolves.  Both
\* merge modes, every registry of up to MaxBackends backends; the queue
\* neither loops nor stalls.
C33_Termination ==
    \A c \in CallIds :
        (calls[c].status # "idle")
            ~> \/ ~OnlyRejections(calls[c])
               \/ calls[c].status = "resolved"
               \/ OperationSettled(calls[c]) /\ calls[c].mergeThrew

\* a sequentialFetching operation on three backends resolved after all three
\* were asked in turn, one of them having rejected
C33_Witness ==
    \E c \in CallIds :
        LET q == calls[c]
        IN /\ ViaQueue(q) /\ q.status = "resolved"
           /\ Len(dataProviders) = MaxBackends
           /\ Len(q.invoked) = MaxBackends
           /\ OnlyRejections(q)
           /\ \E i \in 1..Len(dataProviders) : q.backendCall[i].state = "rejected"

\* --------------------------------------------------------------------- C34
\* C34: a narrowable operation called with an empty id list, in
\* sequentialFetching mode, invokes no backend and hands the merge function
\* the empty list, resolving with what it returns (rejecting only when it
\* throws); in fetchAll mode the same call invokes every registered backend
\* with the caller's params.
C34_EmptyRequest ==
    \A c \in CallIds :
        LET q == calls[c]
        IN (q.status # "idle" /\ q.op \in NarrowOps /\ q.params = <<>>) =>
              /\ ViaQueue(q) =>
                    /\ q.invoked = <<>>
                    /\ q.status \in {"listReady", "resolved", "rejected"}
                    /\ q.mergeCalls > 0 => q.mergeInput = <<>>
                    /\ q.status = "resolved" => q.merged = mergeFunction(<<>>)
                    /\ q.status = "rejected" => q.mergeThrew
              /\ ViaFetchAll(q) => FannedOut(q)

\* --------------------------------------------------------------------- C35
\* C35: in sequentialFetching mode the list handed to the merge function is
\* the list of the responses of the backends whose calls resolved, each
\* tagged with its backend's registry name, in registration order; a backend
\* that rejected, threw or was never invoked has no entry.
C35_QueueListIsResolved ==
    \A c \in CallIds :
        LET q == calls[c]
        IN (ViaQueue(q) /\ q.mergeCalls > 0) =>
              /\ q.mergeInput = OwnResponses(q, Len(dataProviders))
              /\ Len(q.mergeInput) =
                    Cardinality({i \in 1..Len(dataProviders) :
                                    q.backendCall[i].state = "resolved"})

\* merged after the first backend rejected, the second resolved everything
\* and the third was not invoked: the list has the second's entry only
C35_Witness ==
    \E c \in CallIds :
        LET q == calls[c]
        IN /\ ViaQueue(q) /\ q.mergeCalls = 1 /\ q.op \in NarrowOps
           /\ Len(dataProviders) = 3
           /\ q.backendCall[1].state = "rejected"
           /\ q.backendCall[2].state = "resolved"
           /\ q.backendCall[3].state = "none"
           /\ q.mergeInput = <<Tagged(dataProviders[2], q.backendCall[2].response)>>

\* --------------------------------------------------------------------- C36
\* C36: in a narrowable sequentialFetching operation the ids given to a
\* backend are among the ids given to the backend invoked before it and
\* among the ids the caller requested, whatever keys the backends return; so
\* no backend is asked for an id the caller did not request.
C36_IdsOnlyShrink ==
    \A c \in CallIds :
        LET q == calls[c]
        IN (ViaQueue(q) /\ q.op \in NarrowOps) =>
              /\ Range(q.idsLeft) \subseteq Range(q.params)
              /\ \A n \in 1..Len(q.invoked) :
                    /\ Range(q.invoked[n].args) \subseteq Range(q.params)
                    /\ n > 1 => Range(q.invoked[n].args)
                                    \subseteq Range(q.invoked[n - 1].args)

\* asked for one id, the first backend resolved with a record for another
\* key only, and the second backend is asked for the requested id
C36_Witness ==
    \E c \in CallIds :
        LET q == calls[c]
        IN /\ ViaQueue(q) /\ q.op \in NarrowOps /\ Len(q.params) = 1
           /\ Len(q.invoked) >= 2
           /\ q.backendCall[1].state = "resolved"
           /\ Keys(q.backendCall[1].response) # {}
           /\ Keys(q.backendCall[1].response) \cap Range(q.params) = {}
           /\ q.invoked[2].args = q.params

\* --------------------------------------------------------------------- C37
\* C37: in a sequentialFetching linkTypesOf, linkElements or filter, an
\* entry of the list handed to the merge function that carries a non-empty
\* payload is the last entry of the list; so the list has at most one such
\* entry and every entry before it is empty.
C37_NonEmptyIsLast ==
    \A c \in CallIds :
        LET q == calls[c]
        IN (ViaQueue(q) /\ q.op \in BinaryOps /\ q.mergeCalls > 0) =>
              \A k \in 1..Len(q.mergeInput) :
                  Keys(q.mergeInput[k].response) # {} => k = Len(q.mergeInput)

\* a binary operation merged a list of two entries, an empty one from the
\* first backend and a non-empty one from the second; the third was not asked
C37_Witness ==
    \E c \in CallIds :
        LET q == calls[c]
        IN /\ ViaQueue(q) /\ q.op \in BinaryOps /\ q.mergeCalls = 1
           /\ Len(dataProviders) = 3
           /\ Len(q.mergeInput) = 2
           /\ Keys(q.mergeInput[1].response) = {}
           /\ Keys(q.mergeInput[2].response) # {}
           /\ q.backendCall[3].state = "none"

\* --------------------------------------------------------------------- C38
\* C38: for propertyInfo and elementInfo, on backends that all resolve, with
\* records for requested ids only and independently of the other ids asked,
\* the sequentialFetching run resolves with the result of the fetchAll run of
\* the same request: the same keys, and for every key the same payload,
\* which is that of the first registered backend that has the key.
C38_PolicyEquivalence ==
    LET all == calls[1]
        seq == calls[2]
    IN (Finished(all) /\ Finished(seq)) =>
          /\ all.status = "resolved" /\ seq.status = "resolved"
          /\ DOMAIN seq.merged = DOMAIN all.merged
          /\ \A id \in DOMAIN all.merged :
                /\ seq.merged[id] = all.merged[id]
                /\ id \in Keys(all.backendCall[all.merged[id]].response)
                /\ \A j \in 1..(all.merged[id] - 1) :
                      id \notin Keys(all.backendCall[j].response)

\* both runs for ids 1 and 2 have ended: the first backend has id 1, the
\* second both, the third id 2; the sequential run never asked the third
C38_Witness ==
    /\ Finished(calls[1]) /\ Finished(calls[2])
    /\ Len(dataProviders) = 3
    /\ calls[1].params = <<1, 2>>
    /\ Keys(calls[1].backendCall[1].response) = {1}
    /\ Keys(calls[1].backendCall[2].response) = {1, 2}
    /\ Keys(calls[1].backendCall[3].response) = {2}
    /\ calls[2].backendCall[2].args = <<2>>
    /\ calls[2].backendCall[3].state = "none"
    /\ calls[2].merged[2] = 2

====
